---- MODULE Spec2Model ----
(***************************************************************************)
(* Model of src/main.py: the Vacancy data model (constructor, comparison,  *)
(* validate), the JSON file storage (add/get/delete), the interaction loop *)
(* and two callers sharing one backing file.                               *)
(*                                                                         *)
(* Python values are tagged records [t, n, s]: t is the Python type, n the *)
(* integer payload, s the text payload.  JSON values in the file use the   *)
(* JSON type names ("null", "number", "string", "array", "true", "NaN").   *)
(***************************************************************************)
EXTENDS Integers, Sequences, FiniteSets, TLC

\* ------------------------------------------------------------------ bounds
MaxLen == 2          \* longest vacancy collection handed to add_vacancies
MaxFetch == 2        \* longest page of raw records the API returns
MaxRuns == 2         \* how often the program is started in the loop model

\* ------------------------------------------------------------ Python values
PyNone == [t |-> "none", n |-> 0, s |-> ""]
PyInt(n) == [t |-> "int", n |-> n, s |-> ""]
PyStr(s) == [t |-> "str", n |-> 0, s |-> s]
PyNaN == [t |-> "nan", n |-> 0, s |-> ""]
PyTrue == [t |-> "bool", n |-> 1, s |-> ""]
PyTuple(s) == [t |-> "tuple", n |-> 0, s |-> s]
PyList(s) == [t |-> "list", n |-> 0, s |-> s]
PySet == [t |-> "set", n |-> 0, s |-> "x"]
PyDict(n) == [t |-> "dict", n |-> n, s |-> "from"]

\* Python truthiness, as used by `salary or 0`
Falsy(v) ==
  \/ v.t = "none"
  \/ v.t \in {"int", "bool"} /\ v.n = 0
  \/ v.t \in {"str", "tuple", "list"} /\ v.s = ""

\* Python ==  (float('nan') is unequal to everything, itself included;
\* True equals 1; a list never equals a tuple)
PyEq(x, y) ==
  /\ x.t # "nan"
  /\ y.t # "nan"
  /\ IF x.t \in {"int", "bool"} /\ y.t \in {"int", "bool"}
     THEN x.n = y.n ELSE x = y

\* Python != on these values is the negation of ==
PyNe(x, y) == ~PyEq(x, y)

\* order of the text payloads used in the model (Python compares strings
\* lexicographically; "" sorts first)
StrOrder == <<"", "Dev", "Eng", "go", "java", "max", "python", "u1", "u2">>
StrRank(s) == CHOOSE i \in 1..Len(StrOrder) : StrOrder[i] = s

\* Python <  : "True", "False" or "TypeError"
PyLt(x, y) ==
  IF x.t \in {"int", "bool", "nan"} /\ y.t \in {"int", "bool", "nan"}
  THEN IF x.t # "nan" /\ y.t # "nan" /\ x.n < y.n THEN "True" ELSE "False"
  ELSE IF x.t = y.t /\ x.t \in {"str", "tuple", "list"}
  THEN IF StrRank(x.s) < StrRank(y.s) THEN "True" ELSE "False"
  ELSE IF x.t = "set" /\ y.t = "set"
  THEN "False"
  ELSE "TypeError"

\* Python >
PyGt(x, y) == PyLt(y, x)

\* ------------------------------------------------------------------ Vacancy
Fields == {"title", "url", "salary", "description"}

\* the raw record of an API response: a plain dict, not a Vacancy
RawRecord(title, url, salary, description) ==
  [cls |-> "dict", title |-> title, url |-> url, salary |-> salary,
   description |-> description]

\* Vacancy.__init__ that stores the salary as given
Vacancy_keep(title, url, salary, description) ==
  [cls |-> "Vacancy", title |-> title, url |-> url, salary |-> salary,
   description |-> description]

\* Vacancy.__init__
Vacancy(title, url, salary, description) ==
  [cls |-> "Vacancy", title |-> title, url |-> url,
   salary |-> IF Falsy(salary) THEN PyInt(0) ELSE salary,
   description |-> description]

\* __lt__ that compares with <=
Vacancy_lt_le(a, b) ==
  IF PyLt(a.salary, b.salary) = "TypeError" THEN "TypeError"
  ELSE IF PyLt(a.salary, b.salary) = "True" \/ PyEq(a.salary, b.salary)
  THEN "True" ELSE "False"

\* Vacancy.__eq__
Vacancy_eq(a, b) == IF PyEq(a.salary, b.salary) THEN "True" ELSE "False"

\* Vacancy.__lt__
Vacancy_lt(a, b) == PyLt(a.salary, b.salary)

\* Vacancy.__gt__
Vacancy_gt(a, b) == PyGt(a.salary, b.salary)

\* validate without the url check
validate_nourl(v) ==
  IF v.salary.t \notin {"int", "nan"} THEN "Salary must be a number"
  ELSE IF v.title.t # "str" THEN "Title must be a string"
  ELSE IF v.description.t # "str" THEN "Description must be a string"
  ELSE "ok"

\* Vacancy.validate: "ok" or the message of the ValueError it raises
validate(v) ==
  IF v.salary.t \notin {"int", "nan"} THEN "Salary must be a number"
  ELSE IF v.title.t # "str" THEN "Title must be a string"
  ELSE IF v.url.t # "str" THEN "URL must be a string"
  ELSE IF v.description.t # "str" THEN "Description must be a string"
  ELSE "ok"

\* --------------------------------------------------------------------- JSON
\* what json.dump can write: a set is not serializable
Serializable(v) == v.t # "set"

\* json.dump of one value: tuples and lists both become arrays
JsonDump(v) ==
  CASE v.t = "none" -> [t |-> "null", n |-> 0, s |-> ""]
    [] v.t = "int" -> [t |-> "number", n |-> v.n, s |-> ""]
    [] v.t = "str" -> [t |-> "string", n |-> 0, s |-> v.s]
    [] v.t = "nan" -> [t |-> "NaN", n |-> 0, s |-> ""]
    [] v.t = "bool" -> [t |-> "true", n |-> v.n, s |-> ""]
    [] v.t \in {"tuple", "list"} -> [t |-> "array", n |-> 0, s |-> v.s]
    [] v.t = "dict" -> [t |-> "object", n |-> v.n, s |-> v.s]

\* json.load of one value: an array always comes back as a list
JsonLoad(j) ==
  CASE j.t = "null" -> PyNone
    [] j.t = "number" -> PyInt(j.n)
    [] j.t = "string" -> PyStr(j.s)
    [] j.t = "NaN" -> PyNaN
    [] j.t = "true" -> PyTrue
    [] j.t = "array" -> PyList(j.s)
    [] j.t = "object" -> PyDict(j.n)

\* v.__dict__ of a Vacancy written by json.dump: one JSON object
DumpRecord(v) == [k \in Fields |-> JsonDump(v[k])]

\* one JSON object read by json.load: a dict of Python values
LoadRecord(r) == [k \in Fields |-> JsonLoad(r[k])]

\* Vacancy(**v) for a loaded dict v
FromDict(d) == Vacancy(d.title, d.url, d.salary, d.description)

\* ------------------------------------------------------------ the backing file
Missing == [st |-> "missing", recs |-> <<>>]
Corrupt == [st |-> "corrupt", recs |-> <<>>]
Stored(recs) == [st |-> "ok", recs |-> recs]

MapSeq(F(_), q) == IF q = <<>> THEN <<>> ELSE [i \in 1..Len(q) |-> F(q[i])]

\* result of one storage call: the file afterwards, the exception raised
\* ("none" when it returns) and the value returned
Result(f, raised, out) == [file |-> f, raised |-> raised, out |-> out]

\* open(file_name, "r") followed by json.load
ReadError(f) ==
  CASE f.st = "missing" -> "FileNotFoundError"
    [] f.st = "corrupt" -> "JSONDecodeError"
    [] OTHER -> "none"

\* add_vacancies that appends to the stored records
add_vacancies_append(f, vacancies) ==
  IF \E i \in 1..Len(vacancies) : vacancies[i].cls # "Vacancy"
  THEN Result(Corrupt, "AttributeError", <<>>)
  ELSE IF \E i \in 1..Len(vacancies), k \in Fields :
            ~Serializable(vacancies[i][k])
  THEN Result(Corrupt, "TypeError", <<>>)
  ELSE Result(Stored(f.recs \o MapSeq(DumpRecord, vacancies)), "none", <<>>)

\* JsonVacancyStorage.add_vacancies: open(..., "w") truncates the file
\* before anything is serialized
add_vacancies(f, vacancies) ==
  IF \E i \in 1..Len(vacancies) : vacancies[i].cls # "Vacancy"
  THEN Result(Corrupt, "AttributeError", <<>>)
  ELSE IF \E i \in 1..Len(vacancies), k \in Fields :
            ~Serializable(vacancies[i][k])
  THEN Result(Corrupt, "TypeError", <<>>)
  ELSE Result(Stored(MapSeq(DumpRecord, vacancies)), "none", <<>>)

\* get_vacancies that stops at the first match
get_vacancies_first(f, key, value) ==
  IF ReadError(f) # "none" THEN Result(f, ReadError(f), <<>>)
  ELSE IF key \notin Fields /\ f.recs # <<>>
  THEN Result(f, "KeyError", <<>>)
  ELSE LET m == SelectSeq(MapSeq(LoadRecord, f.recs),
                          LAMBDA v : PyEq(v[key], value))
       IN Result(f, "none",
                 IF m = <<>> THEN <<>> ELSE <<FromDict(m[1])>>)

\* get_vacancies that indexes the empty result
get_vacancies_index(f, key, value) ==
  IF ReadError(f) # "none" THEN Result(f, ReadError(f), <<>>)
  ELSE IF key \notin Fields /\ f.recs # <<>>
  THEN Result(f, "KeyError", <<>>)
  ELSE LET m == SelectSeq(MapSeq(LoadRecord, f.recs),
                          LAMBDA v : PyEq(v[key], value))
       IN IF m = <<>> THEN Result(f, "IndexError", <<>>)
          ELSE Result(f, "none", MapSeq(FromDict, m))

\* delete_vacancies that keeps the matching records
delete_vacancies_keep(f, key, value) ==
  IF ReadError(f) # "none" THEN Result(f, ReadError(f), <<>>)
  ELSE IF key \notin Fields /\ f.recs # <<>>
  THEN Result(f, "KeyError", <<>>)
  ELSE Result(Stored(SelectSeq(f.recs,
                LAMBDA r : PyEq(JsonLoad(r[key]), value))), "none", <<>>)

\* delete_vacancies that opens the file for writing before it reads it
delete_vacancies_trunc(f, key, value) ==
  IF ReadError(f) # "none" THEN Result(Corrupt, "JSONDecodeError", <<>>)
  ELSE IF key \notin Fields /\ f.recs # <<>>
  THEN Result(Corrupt, "KeyError", <<>>)
  ELSE Result(Stored(SelectSeq(f.recs,
                LAMBDA r : ~PyEq(JsonLoad(r[key]), value))), "none", <<>>)

\* the records of a loaded list whose key field == value
Matching(loaded, key, value) ==
  SelectSeq(loaded, LAMBDA v : PyEq(v[key], value))

\* the records of a loaded list whose key field != value
NotMatching(loaded, key, value) ==
  SelectSeq(loaded, LAMBDA v : PyNe(v[key], value))

\* JsonVacancyStorage.get_vacancies
get_vacancies(f, key, value) ==
  IF ReadError(f) # "none" THEN Result(f, ReadError(f), <<>>)
  ELSE IF key \notin Fields /\ f.recs # <<>>
  THEN Result(f, "KeyError", <<>>)
  ELSE Result(f, "none",
              MapSeq(FromDict, Matching(MapSeq(LoadRecord, f.recs), key, value)))

\* JsonVacancyStorage.delete_vacancies
delete_vacancies(f, key, value) ==
  IF ReadError(f) # "none" THEN Result(f, ReadError(f), <<>>)
  ELSE IF key \notin Fields /\ f.recs # <<>>
  THEN Result(f, "KeyError", <<>>)
  ELSE Result(Stored(MapSeq(DumpRecord,
                NotMatching(MapSeq(LoadRecord, f.recs), key, value))),
              "none", <<>>)

\* ---------------------------------------------------------- API and sorting
\* HhVacancyAPI.get_vacancies: the items of a 200 response, an Exception
\* for every other status
HhVacancyAPI_get_vacancies(response) ==
  IF response.status_code = 200
  THEN [raised |-> "none", out |-> response.items]
  ELSE [raised |-> "Exception", out |-> <<>>]

\* x put into a descending list behind the elements that are not below it
InsertDesc(x, q) ==
  LET below == {i \in 1..Len(q) : Vacancy_lt(q[i], x) = "True"}
      k == IF below = {} THEN Len(q) + 1
           ELSE CHOOSE i \in below : \A j \in below : i <= j
  IN SubSeq(q, 1, k - 1) \o <<x>> \o SubSeq(q, k, Len(q))

RECURSIVE SortDesc(_)
\* vacancies.sort(reverse=True): descending by __lt__, equal elements keep
\* their order
SortDesc(q) ==
  IF q = <<>> THEN <<>>
  ELSE InsertDesc(q[Len(q)], SortDesc(SubSeq(q, 1, Len(q) - 1)))

\* sort raises when two elements cannot be compared
SortError(q) ==
  IF \E i, j \in 1..Len(q) : i # j /\ Vacancy_lt(q[i], q[j]) = "TypeError"
  THEN "TypeError" ELSE "none"

Min(a, b) == IF a < b THEN a ELSE b

\* ------------------------------------------------------------------- state
VARIABLES
  file,      \* content of the backing file vacancies.json
  op,        \* the last call: name, arguments, exception raised, result
  run,       \* successful add_vacancies calls in a row (get_vacancies calls
             \* after them do not end the row), capped at 2
  va,        \* the Vacancy object constructed last
  vb,        \* the Vacancy object constructed before it
  sarg,      \* the salary argument va was constructed with
  vres,      \* what validate() did on va: "none" (not called), "ok", message
  cmp,       \* va < vb, va > vb, va == vb as evaluated last
  pc,        \* interact_with_user: "off", "menu", "exited", "crashed"
  choice,    \* the last menu choice entered
  fetched,   \* the page the API returned to the last command 1 (kept when
             \* the program is started again)
  shown,     \* the vacancies printed by the last command 2 or 3
  err,       \* the exception that ended interact_with_user, or "none"
  runs,      \* how often main() was started
  cpc,       \* two callers: position of each caller in its storage call
  cop,       \* two callers: the call each one makes
  snap,      \* two callers: the local list `vacancies` read by json.load
  dirty,     \* two callers: another caller wrote since this one opened "w"
  stale,     \* two callers: another caller opened "w" or wrote since this
             \* caller's delete_vacancies read the file
  file0      \* two callers: the file before either call started

storeVars == <<file, op, run>>
vacVars == <<va, vb, sarg, vres, cmp>>
loopVars == <<pc, choice, fetched, shown, err, runs>>
concVars == <<cpc, cop, snap, dirty, stale, file0>>
vars == <<storeVars, vacVars, loopVars, concVars>>

NoObj == [cls |-> "none", title |-> PyNone, url |-> PyNone,
          salary |-> PyNone, description |-> PyNone]
NoCmp == [lt |-> "none", gt |-> "none", eq |-> "none"]
NoOp == [name |-> "none", key |-> "", value |-> PyNone, vacancies |-> <<>>,
         loaded |-> 0, raised |-> "none", out |-> <<>>]
Callers == {1, 2}

StoreIdle == file = Missing /\ op = NoOp /\ run = 0
VacIdle ==
  /\ va = NoObj /\ vb = NoObj /\ sarg = PyNone /\ vres = "none"
  /\ cmp = NoCmp
LoopIdle ==
  /\ pc = "off" /\ choice = "" /\ fetched = <<>> /\ shown = <<>>
  /\ err = "none" /\ runs = 0
ConcIdle ==
  /\ cpc = [p \in Callers |-> "off"] /\ cop = [p \in Callers |-> NoOp]
  /\ snap = [p \in Callers |-> <<>>] /\ dirty = [p \in Callers |-> FALSE]
  /\ stale = [p \in Callers |-> FALSE]
  /\ file0 = Missing

\* ------------------------------------------------ the Vacancy objects alone
TitleArgs == {PyStr("Eng"), PyStr("Dev"), PyTuple("Eng")}
UrlArgs == {PyStr("u1"), PyNone}
SalaryArgs == {PyNone, PyInt(0 - 1), PyInt(0), PyInt(1000), PyStr(""),
               PyStr("max"), PyNaN, PyTrue, PySet}
DescriptionArgs == {PyStr("python"), PyInt(7)}

InitVacancy == StoreIdle /\ VacIdle /\ LoopIdle /\ ConcIdle

\* v = Vacancy(title, url, salary, description)
New(title, url, salary, description) ==
  /\ va' = Vacancy(title, url, salary, description)
  /\ vb' = va
  /\ sarg' = salary
  /\ vres' = "none"
  /\ cmp' = NoCmp
  /\ UNCHANGED <<storeVars, loopVars, concVars>>

\* va.validate()
Validate ==
  /\ va # NoObj
  /\ vres' = validate(va)
  /\ UNCHANGED <<va, vb, sarg, cmp, storeVars, loopVars, concVars>>

\* va < vb, va > vb, va == vb
Compare ==
  /\ va # NoObj /\ vb # NoObj
  /\ cmp' = [lt |-> Vacancy_lt(va, vb), gt |-> Vacancy_gt(va, vb),
             eq |-> Vacancy_eq(va, vb)]
  /\ UNCHANGED <<va, vb, sarg, vres, storeVars, loopVars, concVars>>

NextVacancy ==
  \/ \E t \in TitleArgs, u \in UrlArgs, s \in SalaryArgs,
        d \in DescriptionArgs : New(t, u, s, d)
  \/ Validate
  \/ Compare

SpecVacancy == InitVacancy /\ [][NextVacancy]_vars

\* a number that is zero or positive (float('nan') is neither)
NonNegNumber(v) == v.t = "int" /\ v.n >= 0
\* an int or a float; True is neither for validate()
IsNumber(v) == v.t \in {"int", "nan"}
IsText(v) == v.t = "str"

\* C6 as stated: whatever is passed as salary, the constructed salary is a
\* number that is zero or positive.
C6_SalaryAlwaysNonNegative == va # NoObj => NonNegNumber(va.salary)

\* C6 amended: a null, 0 or empty salary argument becomes the integer 0 and
\* the field is never null; every other argument is stored unchanged, so the
\* salary is a non-negative number whenever the argument is null or a
\* non-negative number.
C6_SalaryCoercion ==
  va # NoObj =>
    /\ sarg \in {PyNone, PyInt(0), PyStr("")} => va.salary = PyInt(0)
    /\ sarg \notin {PyNone, PyInt(0), PyStr("")} => va.salary = sarg
    /\ va.salary # PyNone
    /\ (sarg = PyNone \/ NonNegNumber(sarg)) => NonNegNumber(va.salary)

\* a vacancy constructed with a null salary holds 0
C6_Witness == va # NoObj /\ sarg = PyNone /\ va.salary = PyInt(0)

\* C7: a < b, a > b and a == b are decided by the two salaries alone: for
\* integer salaries they are the integer <, > and =, and in general they are
\* Python's <, > and == of the salaries, whatever title, url and description.
C7_OrderBySalaryOnly ==
  cmp # NoCmp =>
    /\ (va.salary.t = "int" /\ vb.salary.t = "int") =>
         /\ (cmp.lt = "True") <=> (va.salary.n < vb.salary.n)
         /\ (cmp.gt = "True") <=> (va.salary.n > vb.salary.n)
         /\ (cmp.eq = "True") <=> (va.salary.n = vb.salary.n)
         /\ {cmp.lt, cmp.gt, cmp.eq} \subseteq {"True", "False"}
    /\ cmp.lt = PyLt(va.salary, vb.salary)
    /\ cmp.gt = PyLt(vb.salary, va.salary)
    /\ (cmp.eq = "True") <=> PyEq(va.salary, vb.salary)

\* two vacancies that differ in title and description compared equal
C7_Witness ==
  /\ cmp # NoCmp /\ cmp.eq = "True" /\ cmp.lt = "False"
  /\ va.salary.t = "int" /\ va.title # vb.title
  /\ va.description # vb.description

\* C8: validate() raises exactly when salary is not a number or one of
\* title, url, description is not a string, and it leaves the object as
\* constructed; objects that fail it were constructed without complaint.
C8_ValidateExactly ==
  vres # "none" =>
    /\ (vres # "ok") <=>
         \/ ~IsNumber(va.salary)
         \/ ~IsText(va.title) \/ ~IsText(va.url) \/ ~IsText(va.description)
    /\ \E t \in TitleArgs, u \in UrlArgs, d \in DescriptionArgs :
         va = Vacancy(t, u, sarg, d)

\* validate() rejected a constructed vacancy whose only fault is its url
C8_Witness ==
  /\ vres \notin {"none", "ok"} /\ ~IsText(va.url)
  /\ IsNumber(va.salary) /\ IsText(va.title) /\ IsText(va.description)

\* ------------------------------------------------------- the storage alone
\* the Vacancy objects callers hand to add_vacancies: two share a url, one
\* has a NaN salary, one a tuple for a title and one a salary json.dump
\* cannot write
Pool ==
  { Vacancy(PyStr("Eng"), PyStr("u1"), PyInt(1000), PyStr("python")),
    Vacancy(PyStr("Dev"), PyStr("u1"), PyNone, PyStr("java")),
    Vacancy(PyStr("Dev"), PyStr("u2"), PyNaN, PyStr("python")),
    Vacancy(PyTuple("Eng"), PyStr("u2"), PyInt(0), PyStr("python")),
    Vacancy(PyStr("Eng"), PyStr("u1"), PySet, PyStr("python")) }

SeqsUpTo(S, n) == UNION {[1..m -> S] : m \in 0..n}

\* the (key, value) pairs callers ask for: every field of every vacancy they
\* may have stored, the "max" of command 2, a list for the tuple title, a
\* value nothing holds and a key no record has
Queries ==
  {<<k, v[k]>> : k \in Fields, v \in Pool}
    \cup {<<"salary", PyStr("max")>>, <<"title", PyList("Eng")>>,
          <<"description", PyStr("u1")>>, <<"id", PyStr("u1")>>}

InitStore == StoreIdle /\ VacIdle /\ LoopIdle /\ ConcIdle

\* the call as recorded in op; loaded is the length of the list json.load
\* returned (0 when nothing was read)
Call(name, key, value, vacancies, f, r) ==
  [name |-> name, key |-> key, value |-> value, vacancies |-> vacancies,
   loaded |-> IF name # "add" /\ ReadError(f) = "none" THEN Len(f.recs) ELSE 0,
   raised |-> r.raised, out |-> r.out]

\* storage.add_vacancies(vacancies)
Add(vacancies) ==
  LET r == add_vacancies(file, vacancies) IN
  /\ file' = r.file
  /\ op' = Call("add", "", PyNone, vacancies, file, r)
  /\ run' = IF r.raised # "none" THEN 0 ELSE IF run = 0 THEN 1 ELSE 2
  /\ UNCHANGED <<vacVars, loopVars, concVars>>

\* storage.get_vacancies(key, value)
Get(key, value) ==
  LET r == get_vacancies(file, key, value) IN
  /\ file' = r.file
  /\ op' = Call("get", key, value, <<>>, file, r)
  /\ UNCHANGED <<run, vacVars, loopVars, concVars>>

\* storage.delete_vacancies(key, value)
Delete(key, value) ==
  LET r == delete_vacancies(file, key, value) IN
  /\ file' = r.file
  /\ op' = Call("delete", key, value, <<>>, file, r)
  /\ run' = 0
  /\ UNCHANGED <<vacVars, loopVars, concVars>>

NextStore ==
  \/ \E vacancies \in SeqsUpTo(Pool, MaxLen) : Add(vacancies)
  \/ \E q \in Queries : Get(q[1], q[2])
  \/ \E q \in Queries : Delete(q[1], q[2])

SpecStore == InitStore /\ [][NextStore]_vars

\* the key field of a stored record equals value
KeyEquals(r, key, value) == PyEq(JsonLoad(r[key]), value)
\* the collections json.dump can write
Colls ==
  {C \in SeqsUpTo(Pool, MaxLen) :
     \A i \in 1..Len(C), k \in Fields : Serializable(C[i][k])}
\* what json.dump writes for a collection
Written(C) == Stored(MapSeq(DumpRecord, C))
\* passes validate() and its salary is not float('nan')
Valid(v) ==
  /\ v.salary.t = "int"
  /\ IsText(v.title) /\ IsText(v.url) /\ IsText(v.description)

\* C1: after add_vacancies(A) then add_vacancies(B) the file holds exactly
\* B's records in B's order, and a get_vacancies that matches every stored
\* record returns B's records and nothing else.
C1_ReplaceNotAppend ==
  /\ (op.name = "add" /\ op.raised = "none" /\ run = 2) =>
       file = Written(op.vacancies)
  /\ (op.name = "get" /\ run = 2 /\ op.key \in Fields
        /\ \A i \in 1..Len(file.recs) :
              KeyEquals(file.recs[i], op.key, op.value)) =>
       /\ op.raised = "none"
       /\ \E B \in Colls :
            /\ file = Written(B)
            /\ Len(op.out) = Len(B)
            /\ \A i \in 1..Len(B) : DumpRecord(op.out[i]) = DumpRecord(B[i])

\* two adds in a row, then a get that matched both stored records
C1_Witness ==
  /\ op.name = "get" /\ run = 2 /\ op.raised = "none"
  /\ Len(file.recs) = 2 /\ Len(op.out) = 2

\* C2: delete_vacancies(key, value) leaves the records whose key field does
\* not equal value, unchanged and in their order, and nothing else; a
\* get_vacancies(key, value) on the result returns the empty sequence.
C2_DeleteExactlyMatching ==
  [][(op'.name = "delete" /\ op'.raised = "none") =>
       /\ file'.st = "ok"
       /\ file'.recs = SelectSeq(file.recs,
             LAMBDA r : ~KeyEquals(r, op'.key, op'.value))
       /\ get_vacancies(file', op'.key, op'.value).raised = "none"
       /\ get_vacancies(file', op'.key, op'.value).out = <<>>]_vars

\* a delete removed some records and left others
C2_Witness ==
  /\ op.name = "delete" /\ op.raised = "none"
  /\ file.recs # <<>> /\ Len(file.recs) < op.loaded

\* C3 as stated, already for vacancies with text fields and an integer
\* salary: with C stored by add_vacancies, get_vacancies(key, r.key) returns
\* exactly the record r, for every record r of C and every field.
C3_RoundTripOnlyThatRecord ==
  (op.name = "get" /\ run >= 1 /\ op.key \in Fields) =>
    \A C \in Colls :
      (file = Written(C) /\ \A j \in 1..Len(C) : Valid(C[j])) =>
      \A i \in 1..Len(C) : op.value = C[i][op.key] =>
        op.raised = "none" /\ op.out = <<C[i]>>

\* C3 amended: with a collection C of vacancies that pass validate() and
\* have no NaN salary stored by add_vacancies, get_vacancies(key, r.key)
\* returns, in stored order, exactly the records of C whose key field equals
\* r's, r among them, each equal to the stored vacancy in all four fields.
C3_RoundTripMatchingRecords ==
  (op.name = "get" /\ run >= 1 /\ op.key \in Fields) =>
    \A C \in Colls :
      (file = Written(C) /\ \A j \in 1..Len(C) : Valid(C[j])) =>
        \A i \in 1..Len(C) : op.value = C[i][op.key] =>
          /\ op.raised = "none"
          /\ op.out = SelectSeq(C, LAMBDA v : v[op.key] = op.value)
          /\ \E j \in 1..Len(op.out) :
               \A k \in Fields : op.out[j][k] = C[i][k]

\* a get on a freshly stored valid collection returned two different records
C3_Witness ==
  /\ op.name = "get" /\ run >= 1 /\ op.raised = "none"
  /\ Len(op.out) = 2 /\ op.out[1] # op.out[2]
  /\ Valid(op.out[1]) /\ Valid(op.out[2])

\* C9: get_vacancies on a readable file in which no record's key field
\* equals value returns the empty sequence and raises nothing.
C9_NoMatchIsEmpty ==
  (/\ op.name = "get" /\ file.st = "ok" /\ op.key \in Fields
   /\ \A i \in 1..Len(file.recs) :
        ~KeyEquals(file.recs[i], op.key, op.value)) =>
    op.raised = "none" /\ op.out = <<>>

\* a get on a non-empty file matched nothing
C9_Witness ==
  /\ op.name = "get" /\ op.raised = "none" /\ op.out = <<>>
  /\ file.st = "ok" /\ file.recs # <<>> /\ op.key \in Fields

\* C10 as stated: a storage call that raises leaves the file as it was, and
\* get_vacancies never changes the file.
C10_FailureLeavesFile ==
  [][/\ op'.raised # "none" => file' = file
     /\ op'.name = "get" => file' = file]_vars

\* C10 amended: get_vacancies never changes the file; get_vacancies and
\* delete_vacancies that raise leave the file as it was; add_vacancies that
\* raises has already truncated the file, which is left unparseable.
C10_ReadersLeaveFile ==
  [][/\ op'.name = "get" => file' = file
     /\ (op'.name = "delete" /\ op'.raised # "none") => file' = file
     /\ (op'.name = "add" /\ op'.raised # "none") => file' = Corrupt]_vars

\* a delete raised on a non-empty readable file, which is still there
C10_Witness ==
  /\ op.name = "delete" /\ op.raised = "KeyError"
  /\ file.st = "ok" /\ file.recs # <<>>

\* ------------------------------------------------------ interact_with_user
\* raw records of an API page
PythonRecord ==
  RawRecord(PyStr("Eng"), PyStr("u1"), PyDict(1000), PyStr("python"))
JavaRecord == RawRecord(PyStr("Dev"), PyStr("u2"), PyNone, PyStr("java"))
RawPool == {PythonRecord, JavaRecord}
Responses ==
  [status_code : {200, 404}, items : SeqsUpTo(RawPool, MaxFetch)]

\* vacancies.json as main() may find it: absent, empty, or written earlier
\* through JsonVacancyStorage
StartFiles ==
  { Missing, Written(<<>>),
    Written(<<Vacancy(PyStr("Eng"), PyStr("u1"), PyInt(1000), PyStr("python")),
              Vacancy(PyStr("Dev"), PyStr("u2"), PyStr("max"), PyStr("java")),
              Vacancy(PyStr("Eng"), PyStr("u2"), PyStr("max"),
                      PyStr("python"))>>) }
Keywords == {"python", "java"}
\* what the user types for N: a number, or text int() rejects
TopInputs == {[ok |-> TRUE, n |-> k] : k \in 0..2} \cup {[ok |-> FALSE, n |-> 0]}

InitLoop ==
  /\ file \in StartFiles /\ op = NoOp /\ run = 0
  /\ pc = "menu" /\ choice = "" /\ fetched = <<>> /\ shown = <<>>
  /\ err = "none" /\ runs = 1
  /\ VacIdle /\ ConcIdle

\* choice "1": fetch page 0 and store it
Choice1(response) ==
  LET a == HhVacancyAPI_get_vacancies(response)
      r == add_vacancies(file, a.out)
  IN
  /\ pc = "menu"
  /\ choice' = "1"
  /\ IF a.raised # "none"
     THEN /\ err' = a.raised /\ pc' = "crashed"
          /\ UNCHANGED <<file, op, fetched>>
     ELSE /\ fetched' = a.out
          /\ file' = r.file
          /\ op' = Call("add", "", PyNone, a.out, file, r)
          /\ err' = r.raised
          /\ pc' = IF r.raised = "none" THEN "menu" ELSE "crashed"
  /\ UNCHANGED <<shown, runs, run, vacVars, concVars>>

\* choice "2": top N by salary
Choice2(top) ==
  LET r == get_vacancies(file, "salary", PyStr("max")) IN
  /\ pc = "menu"
  /\ choice' = "2"
  /\ IF ~top.ok
     THEN /\ err' = "ValueError" /\ pc' = "crashed"
          /\ UNCHANGED <<op, shown>>
     ELSE /\ op' = Call("get", "salary", PyStr("max"), <<>>, file, r)
          /\ IF r.raised # "none"
             THEN err' = r.raised /\ pc' = "crashed" /\ UNCHANGED shown
             ELSE IF SortError(r.out) # "none"
             THEN err' = SortError(r.out) /\ pc' = "crashed"
                  /\ UNCHANGED shown
             ELSE /\ shown' = SubSeq(SortDesc(r.out), 1,
                                      Min(top.n, Len(r.out)))
                  /\ UNCHANGED <<err, pc>>
  /\ UNCHANGED <<file, fetched, runs, run, vacVars, concVars>>

\* choice "3": vacancies whose description is the keyword
Choice3(keyword) ==
  LET r == get_vacancies(file, "description", PyStr(keyword)) IN
  /\ pc = "menu"
  /\ choice' = "3"
  /\ op' = Call("get", "description", PyStr(keyword), <<>>, file, r)
  /\ IF r.raised # "none"
     THEN err' = r.raised /\ pc' = "crashed" /\ UNCHANGED shown
     ELSE shown' = r.out /\ UNCHANGED <<err, pc>>
  /\ UNCHANGED <<file, fetched, runs, run, vacVars, concVars>>

\* choice "4": leave the loop
Choice4 ==
  /\ pc = "menu"
  /\ choice' = "4"
  /\ pc' = "exited"
  /\ UNCHANGED <<file, op, run, fetched, shown, err, runs, vacVars, concVars>>

\* anything else: "Invalid choice"
InvalidChoice ==
  /\ pc = "menu"
  /\ choice' = "x"
  /\ UNCHANGED <<pc, file, op, run, fetched, shown, err, runs, vacVars,
                 concVars>>

\* the user starts the program again; vacancies.json is as it was left
Restart ==
  /\ pc \in {"exited", "crashed"}
  /\ runs < MaxRuns
  /\ runs' = runs + 1
  /\ pc' = "menu" /\ choice' = "" /\ shown' = <<>> /\ err' = "none"
  /\ op' = NoOp
  /\ UNCHANGED <<file, fetched, run, vacVars, concVars>>

NextLoop ==
  \/ \E response \in Responses : Choice1(response)
  \/ \E top \in TopInputs : Choice2(top)
  \/ \E keyword \in Keywords : Choice3(keyword)
  \/ Choice4
  \/ InvalidChoice
  \/ Restart

SpecLoop == InitLoop /\ [][NextLoop]_vars

\* C4: once command 1 has fetched the one record with description "python",
\* the record is in the file, command 1 ended without an exception, and
\* command 3 then shows one vacancy for "python" and none for "java".
C4_EndToEnd ==
  fetched = <<PythonRecord>> =>
    /\ choice = "1" => (err = "none" /\ Len(file.recs) = 1)
    /\ (choice = "3" /\ op.value = PyStr("python")) =>
         (err = "none" /\ Len(shown) = 1)
    /\ (choice = "3" /\ op.value = PyStr("java")) =>
         (err = "none" /\ Len(shown) = 0)

\* ------------------------------------------- two callers, one backing file
\* Each caller makes one storage call.  A call is the sequence of its file
\* operations: add_vacancies is open("w") (the file is truncated) and then
\* json.dump with the close that flushes it; delete_vacancies is the read
\* with the filter, open("w"), and json.dump with close; get_vacancies is
\* the read.  Nothing in the code keeps the steps of two callers apart.
ConcPool ==
  { Vacancy(PyStr("Eng"), PyStr("u1"), PyInt(1000), PyStr("python")),
    Vacancy(PyStr("Dev"), PyStr("u1"), PyNone, PyStr("java")) }
ConcFiles == {Missing} \cup {Written(C) : C \in SeqsUpTo(ConcPool, MaxLen)}
ConcCalls ==
  {[NoOp EXCEPT !.name = "add", !.vacancies = C] :
     C \in {<<>>,
            <<Vacancy(PyStr("Dev"), PyStr("u2"), PyInt(7), PyStr("go"))>>,
            <<Vacancy(PyStr("Eng"), PyStr("u1"), PySet, PyStr("python"))>>}}
  \cup {[NoOp EXCEPT !.name = n, !.key = q[1], !.value = q[2]] :
          n \in {"get", "delete"},
          q \in {<<"description", PyStr("python")>>,
                 <<"description", PyStr("java")>>, <<"id", PyStr("u1")>>}}

InitConcurrent ==
  /\ file0 \in ConcFiles
  /\ file = file0
  /\ cop \in [Callers -> ConcCalls]
  /\ cpc = [p \in Callers |-> "start"]
  /\ snap = [p \in Callers |-> <<>>]
  /\ dirty = [p \in Callers |-> FALSE]
  /\ stale = [p \in Callers |-> FALSE]
  /\ op = NoOp /\ run = 0
  /\ VacIdle /\ LoopIdle

\* callers whose delete_vacancies has read the file and not yet written it
Pending(p) ==
  {q \in Callers \ {p} : cop[q].name = "delete" /\ cpc[q] \in {"read", "opened"}}
\* callers that hold the file open for writing
Writing(p) == {q \in Callers \ {p} : cpc[q] = "opened"}

\* close() after json.dump: the text is written at offset 0, over whatever
\* another caller wrote since this caller truncated the file; a longer text
\* underneath leaves its tail behind
Flushed(p, own) == IF dirty[p] THEN {own, Corrupt} ELSE {own}

\* open(self.file_name, "w") of either writing call
OpenW(p) ==
  /\ \/ cop[p].name = "add" /\ cpc[p] = "start"
     \/ cop[p].name = "delete" /\ cpc[p] = "read"
  /\ file' = Corrupt
  /\ cpc' = [cpc EXCEPT ![p] = "opened"]
  /\ dirty' = [q \in Callers |-> FALSE]
  /\ stale' = [q \in Callers |-> stale[q] \/ q \in Pending(p)]
  /\ UNCHANGED <<cop, snap, file0, op, run, vacVars, loopVars>>

\* json.dump([v.__dict__ for v in vacancies], f) and the close
AddDump(p) ==
  LET r == add_vacancies(file, cop[p].vacancies) IN
  /\ cop[p].name = "add" /\ cpc[p] = "opened"
  /\ cop' = [cop EXCEPT ![p].raised = r.raised]
  /\ cpc' = [cpc EXCEPT ![p] = IF r.raised = "none" THEN "done" ELSE "failed"]
  /\ file' \in CASE r.raised = "none" -> Flushed(p, r.file)
                  [] r.raised = "AttributeError" -> {file}
                  [] OTHER -> {Corrupt}
  /\ dirty' = [q \in Callers |->
                dirty[q] \/ (q \in Writing(p) /\ r.raised # "AttributeError")]
  /\ stale' = [q \in Callers |->
                stale[q] \/ (q \in Pending(p) /\ r.raised # "AttributeError")]
  /\ UNCHANGED <<snap, file0, op, run, vacVars, loopVars>>

\* the read of delete_vacancies that keeps the list as loaded
DeleteRead_unfiltered(p) ==
  LET r == delete_vacancies(file, cop[p].key, cop[p].value) IN
  /\ cop[p].name = "delete" /\ cpc[p] = "start"
  /\ cop' = [cop EXCEPT ![p].raised = r.raised,
                         ![p].loaded = IF ReadError(file) = "none"
                                       THEN Len(file.recs) ELSE 0]
  /\ cpc' = [cpc EXCEPT ![p] = IF r.raised = "none" THEN "read" ELSE "failed"]
  /\ snap' = [snap EXCEPT ![p] = IF r.raised = "none" THEN file.recs
                                 ELSE <<>>]
  /\ UNCHANGED <<file, dirty, stale, file0, op, run, vacVars, loopVars>>

\* json.load and the filter of delete_vacancies
DeleteRead(p) ==
  LET r == delete_vacancies(file, cop[p].key, cop[p].value) IN
  /\ cop[p].name = "delete" /\ cpc[p] = "start"
  /\ cop' = [cop EXCEPT ![p].raised = r.raised,
                         ![p].loaded = IF ReadError(file) = "none"
                                       THEN Len(file.recs) ELSE 0]
  /\ cpc' = [cpc EXCEPT ![p] = IF r.raised = "none" THEN "read" ELSE "failed"]
  /\ snap' = [snap EXCEPT ![p] = IF r.raised = "none" THEN r.file.recs
                                 ELSE <<>>]
  /\ UNCHANGED <<file, dirty, stale, file0, op, run, vacVars, loopVars>>

\* json.dump(vacancies, f) of delete_vacancies and the close
DeleteDump(p) ==
  /\ cop[p].name = "delete" /\ cpc[p] = "opened"
  /\ file' \in Flushed(p, Stored(snap[p]))
  /\ cpc' = [cpc EXCEPT ![p] = "done"]
  /\ dirty' = [q \in Callers |-> dirty[q] \/ q \in Writing(p)]
  /\ stale' = [q \in Callers |-> stale[q] \/ q \in Pending(p)]
  /\ UNCHANGED <<cop, snap, file0, op, run, vacVars, loopVars>>

\* get_vacancies
GetRead(p) ==
  LET r == get_vacancies(file, cop[p].key, cop[p].value) IN
  /\ cop[p].name = "get" /\ cpc[p] = "start"
  /\ cop' = [cop EXCEPT ![p].raised = r.raised, ![p].out = r.out,
                         ![p].loaded = IF ReadError(file) = "none"
                                       THEN Len(file.recs) ELSE 0]
  /\ cpc' = [cpc EXCEPT ![p] = IF r.raised = "none" THEN "done" ELSE "failed"]
  /\ UNCHANGED <<file, snap, dirty, stale, file0, op, run, vacVars, loopVars>>

NextConcurrent ==
  \E p \in Callers :
    \/ OpenW(p)
    \/ AddDump(p)
    \/ DeleteRead(p)
    \/ DeleteDump(p)
    \/ GetRead(p)

SpecConcurrent == InitConcurrent /\ [][NextConcurrent]_vars

\* the call of caller p run alone on file f
Alone(p, f) ==
  CASE cop[p].name = "add" -> add_vacancies(f, cop[p].vacancies).file
    [] cop[p].name = "delete" ->
         delete_vacancies(f, cop[p].key, cop[p].value).file
    [] OTHER -> f
\* the file after the two calls one after the other, p first
Serial(p, q) == Alone(q, Alone(p, file0))
Returned == \A p \in Callers : cpc[p] = "done"

\* C5: nothing orders the steps of two callers, and an update is lost only
\* through the gap between the read and the write of delete_vacancies: when
\* both calls have returned and the file is readable but is the outcome of
\* neither serial order, some delete_vacancies wrote back a list it had read
\* before the other caller opened or wrote the file.
C5_LostUpdateByStaleWrite ==
  Returned =>
    \/ file \in {Serial(1, 2), Serial(2, 1)}
    \/ file = Corrupt
    \/ \E p \in Callers : stale[p] /\ cop[p].name = "delete"

\* both calls returned, the second caller's update completed inside the
\* first one's read-write gap, and the file is what no serial order gives
C5_Witness ==
  /\ Returned
  /\ file.st = "ok"
  /\ file \notin {Serial(1, 2), Serial(2, 1)}
  /\ stale[1] /\ cop[1].name = "delete"
  /\ cop[2].name \in {"add", "delete"}

====
